---------------------------- MODULE Spec2Model ----------------------------
(***************************************************************************)
(* Model of the call store (callStore: useCallStore), of the WebSocket     *)
(* subscription adapter (AgentClient.subscribeToCall) and of the route     *)
(* loader of the execution view of the agent management UI.                *)
(*                                                                         *)
(* Granularity: JavaScript runs every task to completion and drains the    *)
(* microtask queue after it, so one action is one task: a store action     *)
(* called by a component, or one socket callback (open, message, close)    *)
(* together with the continuations of the consumption loops it resumes.    *)
(* SpecLoops alone splits a message task from the loop continuations it    *)
(* schedules, to state progress of the loops under fairness.               *)
(***************************************************************************)
EXTENDS Integers, Sequences, FiniteSets, TLC

VARIABLES
    calls,          \* store.calls: call id -> CallSummary
    callsMeta,      \* store.callsMeta: call id -> ResourceMetadata
    events,         \* store.events: call id -> CallEvent[]
    eventsMeta,     \* store.eventsMeta: call id -> ResourceMetadata
    subscriptions,  \* store.subscriptions: call id -> handle (index of its socket)
    sockets,        \* every socket created by agentClient.subscribeToCall, in creation order
    lastOp,         \* history: the task that produced this state
    polls,          \* history: the result of every next() call made on a bare adapter
    wire,           \* history: the messages that arrived on a bare adapter's socket
    fetches,        \* the HTTP requests of the route loaders that are in flight
    agents,         \* store.agents: agent name -> Agent
    agentsMeta,     \* store.agentsMeta: agent name -> ResourceMetadata
    view,           \* the mounted ExecutionView: its call id and the effect's cleanup
    viewer          \* the ExecutionViewer component: its state, refs and scroll container

vars == <<calls, callsMeta, events, eventsMeta, subscriptions, sockets, lastOp,
          polls, wire, fetches, agents, agentsMeta, view, viewer>>

-----------------------------------------------------------------------------
(* Bounds *)

MaxEventId == 2
MaxTimestamp == 2
MaxSnapshot == 1
MaxSockets == 2
MaxPolls == 4       \* next() calls made on a bare adapter
MaxWire == 4        \* event and error messages sent to a bare adapter
MaxBacklog == 2     \* messages buffered by an adapter whose loops have not caught up
MaxLoads == 2        \* runs of the execution view's route loader
MaxExecutions == 2   \* executions started in the test console
MaxViewerEvents == 2 \* messages delivered by one execution's socket

-----------------------------------------------------------------------------
(* Data *)

CallIds == {"c1", "c2"}

CallStatus == {"pending", "running", "completed", "failed", "cancelled"}

\* call.status === 'completed' || call.status === 'failed' || call.status === 'cancelled'
isTerminal(status) == status = "completed" \/ status = "failed" \/ status = "cancelled"

CallSummary == [id : CallIds, status : CallStatus]

EventIds == 1..MaxEventId
Timestamps == 1..MaxTimestamp

ThoughtFields == {"reasoning", "goal_achieved"}
StatusChangeFields == {"old_status", "new_status"}

\* CallThought and CallStatusChange, the two variants the store tells apart.
\* fields is the set of variant-specific keys present on the object.
CallEvent ==
    [id : EventIds, call_id : CallIds, timestamp : Timestamps,
     fields : {ThoughtFields}, new_status : {"none"}]
    \cup
    [id : EventIds, call_id : CallIds, timestamp : Timestamps,
     fields : {StatusChangeFields}, new_status : {"running", "completed"}]

getEventType(event) ==
    IF "reasoning" \in event.fields THEN "thought"
    ELSE IF "tool_name" \in event.fields THEN "action"
    ELSE IF "result" \in event.fields /\ "success" \in event.fields THEN "result"
    ELSE IF "error_type" \in event.fields /\ "error_message" \in event.fields THEN "error"
    ELSE IF "old_status" \in event.fields /\ "new_status" \in event.fields THEN "status_change"
    ELSE "unknown"

WSError == [error_type : {"stream"}]

NoArg == [type |-> "none"]

EmptyRecord == [c \in {} |-> 0]

-----------------------------------------------------------------------------
(* The upsert-and-sort of addEvent and setCallEvents *)

\* state.events[callId] || []
EventsOf(evs, callId) == IF callId \in DOMAIN evs THEN evs[callId] ELSE <<>>

\* The keys of new Map(list.map(e => [e.id, e])).
Ids(list) == {list[i].id : i \in 1..Len(list)}

\* Variant: Map.set that keeps the value already stored under the key.
MapSetKeep(list, event) ==
    IF \E i \in 1..Len(list) : list[i].id = event.id
    THEN list
    ELSE Append(list, event)

\* Variant: an array push instead of a keyed Map.set.
MapSetPush(list, event) == Append(list, event)

\* Map.prototype.set on a Map built from the list: an existing key keeps its
\* position and gets the new value, a new key goes last.
MapSet(list, event) ==
    IF \E i \in 1..Len(list) : list[i].id = event.id
    THEN [i \in 1..Len(list) |-> IF list[i].id = event.id THEN event ELSE list[i]]
    ELSE Append(list, event)

RECURSIVE MapSetAll(_, _)
MapSetAll(list, evs) ==
    IF evs = <<>> THEN list
    ELSE MapSetAll(MapSet(list, Head(evs)), Tail(evs))

\* new Map(list.map(e => [e.id, e])) followed by Array.from(map.values())
MapOf(list) == MapSetAll(<<>>, list)

\* insert e into a list sorted by timestamp, after every entry that does not
\* compare greater: Array.prototype.sort is stable.
RECURSIVE InsertSorted(_, _)
InsertSorted(sorted, e) ==
    IF sorted = <<>> THEN <<e>>
    ELSE IF Head(sorted).timestamp - e.timestamp > 0
         THEN <<e>> \o sorted
         ELSE <<Head(sorted)>> \o InsertSorted(Tail(sorted), e)

RECURSIVE SortByTimestamp(_)
SortByTimestamp(list) ==
    IF list = <<>> THEN <<>>
    ELSE InsertSorted(SortByTimestamp(SubSeq(list, 1, Len(list) - 1)), list[Len(list)])

\* Variant: the upsert without the chronological sort.
addEventUnsorted(evs, event) ==
    LET callId == event.call_id
        updatedEvents == MapSet(MapOf(EventsOf(evs, callId)), event)
    IN  [c \in DOMAIN evs \cup {callId} |-> IF c = callId THEN updatedEvents ELSE evs[c]]

addEvent(evs, event) ==
    LET callId == event.call_id
        existingEvents == EventsOf(evs, callId)
        updatedEvents == SortByTimestamp(MapSet(MapOf(existingEvents), event))
    IN  [c \in DOMAIN evs \cup {callId} |-> IF c = callId THEN updatedEvents ELSE evs[c]]

\* Variant: the merge without the chronological sort.
setCallEventsUnsorted(evs, callId, fetched) ==
    LET mergedEvents == MapSetAll(MapOf(EventsOf(evs, callId)), fetched)
    IN  [c \in DOMAIN evs \cup {callId} |-> IF c = callId THEN mergedEvents ELSE evs[c]]

\* Variant: the fetched snapshot replaces the list instead of merging into it.
setCallEventsReplace(evs, callId, fetched) ==
    LET mergedEvents == SortByTimestamp(MapOf(fetched))
    IN  [c \in DOMAIN evs \cup {callId} |-> IF c = callId THEN mergedEvents ELSE evs[c]]

setCallEvents(evs, callId, fetched) ==
    LET existingEvents == EventsOf(evs, callId)
        mergedEvents == SortByTimestamp(MapSetAll(MapOf(existingEvents), fetched))
    IN  [c \in DOMAIN evs \cup {callId} |-> IF c = callId THEN mergedEvents ELSE evs[c]]

\* The metadata written by a successful load; lastFetch is a Date object.
Loaded == [loading |-> FALSE, error |-> "null", notFound |-> FALSE, lastFetch |-> "date"]

\* Variant: the spread of the old record is forgotten.
WithOnly(record, key, value) == [c \in {key} |-> value]

\* { ...record, [key]: value }
With(record, key, value) ==
    [c \in DOMAIN record \cup {key} |-> IF c = key THEN value ELSE record[c]]

updateCall(cs, call) == With(cs, call.id, call)

\* const { [callId]: removed, ...remaining } = record
Without(record, callId) == [c \in DOMAIN record \ {callId} |-> record[c]]

-----------------------------------------------------------------------------
(* AgentClient.subscribeToCall: the push-to-pull adapter around one socket *)

\* State right after `new WebSocket(wsUrl)` and the `let` declarations.
NewSocket(callId) ==
    [callId |-> callId, readyState |-> "CONNECTING", closed |-> FALSE,
     eventQueue |-> <<>>, errorQueue |-> <<>>,
     eventResolvers |-> <<>>, errorResolvers |-> <<>>,
     evLoop |-> "idle", errLoop |-> "idle",
     closeCalled |-> FALSE]   \* history: the handle's close() has been called

\* Variant: next() reports the closure before it looks at the buffer.
eventNextClosedFirst(sock, consumer) ==
    IF sock.closed
    THEN [sock |-> sock, done |-> TRUE, pending |-> FALSE, value |-> <<>>]
    ELSE IF Len(sock.eventQueue) > 0
    THEN [sock |-> [sock EXCEPT !.eventQueue = Tail(@)],
          done |-> FALSE, pending |-> FALSE, value |-> <<Head(sock.eventQueue)>>]
    ELSE [sock |-> [sock EXCEPT !.eventResolvers = Append(@, consumer)],
          done |-> FALSE, pending |-> TRUE, value |-> <<>>]

\* eventIterator.next() called by the given consumer: a buffered value, else
\* end-of-sequence when closed, else a promise whose resolver is queued.
eventNextFor(sock, consumer) ==
    IF Len(sock.eventQueue) > 0
    THEN [sock |-> [sock EXCEPT !.eventQueue = Tail(@)],
          done |-> FALSE, pending |-> FALSE, value |-> <<Head(sock.eventQueue)>>]
    ELSE IF sock.closed
    THEN [sock |-> sock, done |-> TRUE, pending |-> FALSE, value |-> <<>>]
    ELSE [sock |-> [sock EXCEPT !.eventResolvers = Append(@, consumer)],
          done |-> FALSE, pending |-> TRUE, value |-> <<>>]

\* Variant: a buffered error is returned without being taken off the buffer.
errorNextKeepsItem(sock, consumer) ==
    IF Len(sock.errorQueue) > 0
    THEN [sock |-> sock, done |-> FALSE, pending |-> FALSE, value |-> <<Head(sock.errorQueue)>>]
    ELSE IF sock.closed
    THEN [sock |-> sock, done |-> TRUE, pending |-> FALSE, value |-> <<>>]
    ELSE [sock |-> [sock EXCEPT !.errorResolvers = Append(@, consumer)],
          done |-> FALSE, pending |-> TRUE, value |-> <<>>]

errorNextFor(sock, consumer) ==
    IF Len(sock.errorQueue) > 0
    THEN [sock |-> [sock EXCEPT !.errorQueue = Tail(@)],
          done |-> FALSE, pending |-> FALSE, value |-> <<Head(sock.errorQueue)>>]
    ELSE IF sock.closed
    THEN [sock |-> sock, done |-> TRUE, pending |-> FALSE, value |-> <<>>]
    ELSE [sock |-> [sock EXCEPT !.errorResolvers = Append(@, consumer)],
          done |-> FALSE, pending |-> TRUE, value |-> <<>>]

\* next() as called by the store's two loops.
eventNext(sock) == eventNextFor(sock, "evLoop")

errorNext(sock) == errorNextFor(sock, "errLoop")

\* The handle's close(): ws.close() only when the socket is OPEN.
closeHandle(sock) ==
    IF sock.readyState = "OPEN"
    THEN [sock EXCEPT !.readyState = "CLOSING", !.closeCalled = TRUE]
    ELSE [sock EXCEPT !.closeCalled = TRUE]

\* Variant: a message is handed to the consumer that started waiting last.
wsOnMessageLastWaiter(sock, message) ==
    IF message.type = "event"
    THEN IF Len(sock.eventResolvers) > 0
         THEN [sock |-> [sock EXCEPT !.eventResolvers = SubSeq(@, 1, Len(@) - 1)],
               resolved |-> <<sock.eventResolvers[Len(sock.eventResolvers)]>>]
         ELSE [sock |-> [sock EXCEPT !.eventQueue = Append(@, message.data)],
               resolved |-> <<>>]
    ELSE IF message.type = "error"
    THEN IF Len(sock.errorResolvers) > 0
         THEN [sock |-> [sock EXCEPT !.errorResolvers = SubSeq(@, 1, Len(@) - 1)],
               resolved |-> <<sock.errorResolvers[Len(sock.errorResolvers)]>>]
         ELSE [sock |-> [sock EXCEPT !.errorQueue = Append(@, message.data)],
               resolved |-> <<>>]
    ELSE [sock |-> sock, resolved |-> <<>>]

\* ws.onmessage: the data goes to the consumer that has waited longest
\* (`resolved` names it), or into the buffer when nobody waits.  A 'status'
\* envelope matches neither branch; a payload that is not JSON makes
\* JSON.parse throw, which the handler catches and logs.
wsOnMessage(sock, message) ==
    IF message.type = "event"
    THEN IF Len(sock.eventResolvers) > 0
         THEN [sock |-> [sock EXCEPT !.eventResolvers = Tail(@)],
               resolved |-> <<Head(sock.eventResolvers)>>]
         ELSE [sock |-> [sock EXCEPT !.eventQueue = Append(@, message.data)],
               resolved |-> <<>>]
    ELSE IF message.type = "error"
    THEN IF Len(sock.errorResolvers) > 0
         THEN [sock |-> [sock EXCEPT !.errorResolvers = Tail(@)],
               resolved |-> <<Head(sock.errorResolvers)>>]
         ELSE [sock |-> [sock EXCEPT !.errorQueue = Append(@, message.data)],
               resolved |-> <<>>]
    ELSE [sock |-> sock, resolved |-> <<>>]

\* ws.onerror: logs to the console and touches nothing.
wsOnError(sock) == sock

\* Variant: the close handler forgets the awaiting consumers.
oncloseKeepsWaiting(sock) == [sock EXCEPT !.closed = TRUE]

\* ws.onclose: every awaiting consumer gets done: true, so its loop ends.
onclose(sock) ==
    [sock EXCEPT !.closed = TRUE,
                 !.evLoop = IF Len(sock.eventResolvers) > 0 THEN "done" ELSE @,
                 !.errLoop = IF Len(sock.errorResolvers) > 0 THEN "done" ELSE @,
                 !.eventResolvers = <<>>,
                 !.errorResolvers = <<>>]

-----------------------------------------------------------------------------
(* The two consumption loops started by the store's subscribeToCall *)

\* Variant: the loop files the event under its own subscription's call id.
eventLoopBodyOwnList(st, callId, event) ==
    [calls |-> st.calls, callsMeta |-> st.callsMeta,
     events |-> setCallEvents(st.events, callId, <<event>>)]

\* The body of `for await (const event of subscription.events)`.
\* st is the part of the store the loop writes: [calls, callsMeta, events].
eventLoopBody(st, callId, event) ==
    LET evs1 == addEvent(st.events, event)
        updates == /\ getEventType(event) = "status_change"
                   /\ "new_status" \in event.fields
                   /\ callId \in DOMAIN st.calls
        cs1 == IF updates
               THEN updateCall(st.calls, [st.calls[callId] EXCEPT !.status = event.new_status])
               ELSE st.calls
        cm1 == IF updates THEN With(st.callsMeta, callId, Loaded) ELSE st.callsMeta
    IN  [calls |-> cs1, callsMeta |-> cm1, events |-> evs1]

\* One iteration of the event loop with the given event, then the following
\* next() calls until one has to wait.
RECURSIVE RunEventLoop(_, _, _)
RunEventLoop(st, sock, event) ==
    LET st1 == eventLoopBody(st, sock.callId, event)
        nxt == eventNext(sock)
    IN  IF nxt.pending THEN [st |-> st1, sock |-> [nxt.sock EXCEPT !.evLoop = "awaiting"]]
        ELSE IF nxt.done THEN [st |-> st1, sock |-> [nxt.sock EXCEPT !.evLoop = "done"]]
        ELSE RunEventLoop(st1, nxt.sock, nxt.value[1])

\* `for await (const error of subscription.errors)`: logs only.
RECURSIVE RunErrorLoop(_)
RunErrorLoop(sock) ==
    LET nxt == errorNext(sock)
    IN  IF nxt.pending THEN [nxt.sock EXCEPT !.errLoop = "awaiting"]
        ELSE IF nxt.done THEN [nxt.sock EXCEPT !.errLoop = "done"]
        ELSE RunErrorLoop(nxt.sock)

\* Variant: the second loop is started only once the first has returned.
StartLoopsSequential(sock) ==
    LET e == eventNext(sock)
    IN  [e.sock EXCEPT !.evLoop = IF e.pending THEN "awaiting" ELSE "done"]

\* Both async IIFEs run synchronously up to their first await: a next() call
\* on a fresh adapter.
StartLoops(sock) ==
    LET e == eventNext(sock)
        s1 == [e.sock EXCEPT !.evLoop = IF e.pending THEN "awaiting" ELSE "done"]
    IN  RunErrorLoop(s1)

\* ws.onmessage followed by the continuation of the loop it resumes.
onmessage(st, sock, message) ==
    LET d == wsOnMessage(sock, message)
    IN  IF d.resolved = <<>> THEN [st |-> st, sock |-> d.sock]
        ELSE IF message.type = "event" THEN RunEventLoop(st, d.sock, message.data)
        ELSE [st |-> st, sock |-> RunErrorLoop(d.sock)]

-----------------------------------------------------------------------------
(* Inputs *)

\* Events of the stream of call c as a well-behaved backend sends them.
StreamEvents(c) == {e \in CallEvent : e.call_id = c /\ e.id = 1 /\ e.timestamp = 1}

WSMessages(c) ==
    [type : {"event"}, data : StreamEvents(c)]
    \cup [type : {"error"}, data : WSError]
    \cup [type : {"status", "malformed"}, data : {NoArg}]

\* Events of one call, with every id and timestamp and two payloads.
MergeEvents == {e \in CallEvent : e.call_id = "c1" /\ e.new_status \in {"none", "completed"}}

\* The thoughts and actions of call "c1", the two variants that carry a
\* `sequence` field.  The backend numbers the events of a call, so the
\* sequence number of an event is fixed by which event it is.
ActionFields == {"tool_name", "parameters", "result", "success"}

SequencedEvents ==
    {[id |-> i, call_id |-> "c1", timestamp |-> t, sequence |-> i,
      fields |-> f, new_status |-> "none"] :
        i \in EventIds, t \in Timestamps, f \in {ThoughtFields, ActionFields}}

RECURSIVE SeqsUpTo(_, _)
SeqsUpTo(S, n) ==
    IF n = 0 THEN {<<>>}
    ELSE LET shorter == SeqsUpTo(S, n - 1)
         IN  shorter \cup {Append(q, x) : q \in {r \in shorter : Len(r) = n - 1}, x \in S}

\* The snapshots GET /calls/{id}/events may return for call "c1".
StreamSnapshots == SeqsUpTo(StreamEvents("c1"), MaxSnapshot)
SequencedSnapshots == SeqsUpTo(SequencedEvents, MaxSnapshot)

MergeSnapshots == SeqsUpTo(MergeEvents, MaxSnapshot)

-----------------------------------------------------------------------------
(* Store actions, as called by components and loaders *)

Op(name, callId, arg) == [op |-> name, callId |-> callId, arg |-> arg]

AddEvent(E) ==
    \E event \in E :
        /\ events' = addEvent(events, event)
        /\ lastOp' = Op("addEvent", event.call_id, event)
        /\ UNCHANGED <<calls, callsMeta, eventsMeta, subscriptions, sockets>>
        /\ UNCHANGED <<polls, wire, fetches, agents, agentsMeta, view, viewer>>

SetCallEvents(C, snapshots) ==
    \E callId \in C, fetched \in snapshots :
        /\ events' = setCallEvents(events, callId, fetched)
        /\ eventsMeta' = With(eventsMeta, callId, Loaded)
        /\ lastOp' = Op("setCallEvents", callId, [ids |-> Ids(fetched), length |-> Len(fetched)])
        /\ UNCHANGED <<calls, callsMeta, subscriptions, sockets>>
        /\ UNCHANGED <<polls, wire, fetches, agents, agentsMeta, view, viewer>>

UpdateCall(C) ==
    \E call \in {cs \in CallSummary : cs.id \in C} :
        /\ calls' = updateCall(calls, call)
        /\ callsMeta' = With(callsMeta, call.id, Loaded)
        /\ lastOp' = Op("updateCall", call.id, call)
        /\ UNCHANGED <<events, eventsMeta, subscriptions, sockets>>
        /\ UNCHANGED <<polls, wire, fetches, agents, agentsMeta, view, viewer>>

\* Variant: the terminal check forgets 'cancelled'.
subscribeReturnsEarlyNoCancelled(callId) ==
    \/ callId \in DOMAIN subscriptions
    \/ /\ callId \in DOMAIN calls
       /\ calls[callId].status \in {"completed", "failed"}

\* Variant: the registry check is missing.
subscribeReturnsEarlyNoRegistry(callId) ==
    /\ callId \in DOMAIN calls
    /\ isTerminal(calls[callId].status)

\* TRUE when subscribeToCall returns before opening a socket.
subscribeReturnsEarly(callId) ==
    \/ callId \in DOMAIN subscriptions
    \/ /\ callId \in DOMAIN calls
       /\ isTerminal(calls[callId].status)

\* new WebSocket(wsUrl) does not throw for the client's fixed base URL, so the
\* catch branch is not taken.  The cap on sockets bounds the model.
SubscribeToCall(C) ==
    \E callId \in C :
        /\ lastOp' = Op("subscribeToCall", callId, [early |-> subscribeReturnsEarly(callId)])
        /\ IF subscribeReturnsEarly(callId)
           THEN UNCHANGED <<subscriptions, sockets>>
           ELSE /\ Len(sockets) < MaxSockets
                /\ sockets' = Append(sockets, StartLoops(NewSocket(callId)))
                /\ subscriptions' =
                       [c \in DOMAIN subscriptions \cup {callId} |->
                           IF c = callId THEN Len(sockets) + 1 ELSE subscriptions[c]]
        /\ UNCHANGED <<calls, callsMeta, events, eventsMeta>>
        /\ UNCHANGED <<polls, wire, fetches, agents, agentsMeta, view, viewer>>

UnsubscribeFromCall(C) ==
    \E callId \in C :
        /\ lastOp' = Op("unsubscribeFromCall", callId, NoArg)
        /\ IF callId \in DOMAIN subscriptions
           THEN /\ sockets' = [sockets EXCEPT ![subscriptions[callId]] = closeHandle(@)]
                /\ subscriptions' = Without(subscriptions, callId)
           ELSE UNCHANGED <<subscriptions, sockets>>
        /\ UNCHANGED <<calls, callsMeta, events, eventsMeta>>
        /\ UNCHANGED <<polls, wire, fetches, agents, agentsMeta, view, viewer>>

ClearCall(C) ==
    \E callId \in C :
        /\ lastOp' = Op("clearCall", callId, NoArg)
        /\ IF callId \in DOMAIN subscriptions
           THEN sockets' = [sockets EXCEPT ![subscriptions[callId]] = closeHandle(@)]
           ELSE UNCHANGED sockets
        /\ calls' = Without(calls, callId)
        /\ callsMeta' = Without(callsMeta, callId)
        /\ events' = Without(events, callId)
        /\ eventsMeta' = Without(eventsMeta, callId)
        /\ subscriptions' = Without(subscriptions, callId)
        /\ UNCHANGED <<polls, wire, fetches, agents, agentsMeta, view, viewer>>

-----------------------------------------------------------------------------
(* Socket tasks *)

\* The connection is established: readyState becomes OPEN (no onopen handler).
WsOpen ==
    \E i \in 1..Len(sockets) :
        /\ sockets[i].readyState = "CONNECTING"
        /\ sockets' = [sockets EXCEPT ![i].readyState = "OPEN"]
        /\ lastOp' = Op("open", sockets[i].callId, [sock |-> i])
        /\ UNCHANGED <<calls, callsMeta, events, eventsMeta, subscriptions>>
        /\ UNCHANGED <<polls, wire, fetches, agents, agentsMeta, view, viewer>>

\* A message event is dispatched only while readyState is OPEN: after
\* ws.close() the socket is CLOSING and the browser drops incoming messages.
WsMessage ==
    \E i \in 1..Len(sockets) :
        /\ sockets[i].readyState = "OPEN"
        /\ \E message \in WSMessages(sockets[i].callId) :
            LET r == onmessage([calls |-> calls, callsMeta |-> callsMeta, events |-> events],
                               sockets[i], message)
            IN  /\ calls' = r.st.calls
                /\ callsMeta' = r.st.callsMeta
                /\ events' = r.st.events
                /\ sockets' = [sockets EXCEPT ![i] = r.sock]
                /\ lastOp' = Op("message", sockets[i].callId,
                               [sock |-> i, message |-> message,
                                consumed |-> /\ message.type = "event"
                                             /\ Len(sockets[i].eventResolvers) > 0])
        /\ UNCHANGED <<eventsMeta, subscriptions>>
        /\ UNCHANGED <<polls, wire, fetches, agents, agentsMeta, view, viewer>>

\* The close event: the connection failed, was dropped, was closed by the
\* server, or the closing handshake started by close() finished.
WsClose ==
    \E i \in 1..Len(sockets) :
        /\ sockets[i].readyState # "CLOSED"
        /\ sockets' = [sockets EXCEPT ![i] = onclose([@ EXCEPT !.readyState = "CLOSED"])]
        /\ lastOp' = Op("close", sockets[i].callId, [sock |-> i])
        /\ UNCHANGED <<calls, callsMeta, events, eventsMeta, subscriptions>>
        /\ UNCHANGED <<polls, wire, fetches, agents, agentsMeta, view, viewer>>

-----------------------------------------------------------------------------
(* A bare adapter: agentClient.subscribeToCall used by arbitrary consumers, *)
(* which call next() on either sequence whenever they like, several at a   *)
(* time.  The adapter is sockets[1]; a consumer is named by the position   *)
(* of its next() call in polls.                                            *)

Channels == {"events", "errors"}

\* What a next() call has returned so far.  `closed` records whether the
\* adapter was already closed when the call was made, `behind` how many
\* earlier calls on the sequence were still waiting then, and `waited`
\* whether the call had to wait itself.
Poll(nxt, closed, behind) ==
    [result |-> IF nxt.pending THEN "pending" ELSE IF nxt.done THEN "done" ELSE "value",
     value |-> nxt.value, closed |-> closed, behind |-> behind, waited |-> nxt.pending]

\* The n-th message of its kind carries n as its data.
WireMessages ==
    {[type |-> "event", data |-> Len(wire.events) + 1],
     [type |-> "error", data |-> Len(wire.errors) + 1],
     [type |-> "status", data |-> 0],
     [type |-> "malformed", data |-> 0]}

ChannelOf(message) == IF message.type = "event" THEN "events" ELSE "errors"

\* A consumer calls next() on one of the two iterators.
NextItem ==
    \E channel \in Channels :
        /\ Len(polls.events) + Len(polls.errors) < MaxPolls
        /\ LET consumer == Len(polls[channel]) + 1
               nxt == IF channel = "events"
                      THEN eventNextFor(sockets[1], consumer)
                      ELSE errorNextFor(sockets[1], consumer)
           IN  /\ sockets' = <<nxt.sock>>
               /\ polls' = [polls EXCEPT ![channel] =
                              Append(@, Poll(nxt, sockets[1].closed,
                                             IF channel = "events"
                                             THEN Len(sockets[1].eventResolvers)
                                             ELSE Len(sockets[1].errorResolvers)))]
        /\ lastOp' = Op("next", "c1", [channel |-> channel])
        /\ UNCHANGED <<calls, callsMeta, events, eventsMeta, subscriptions, wire, fetches>>
        /\ UNCHANGED <<agents, agentsMeta, view, viewer>>

\* A message event on the open socket.
Message ==
    \E message \in WireMessages :
        /\ sockets[1].readyState = "OPEN"
        /\ Len(wire.events) + Len(wire.errors) < MaxWire
        /\ LET d == wsOnMessage(sockets[1], message)
               channel == ChannelOf(message)
           IN  /\ sockets' = <<d.sock>>
               /\ polls' = IF d.resolved = <<>> THEN polls
                           ELSE [polls EXCEPT ![channel][d.resolved[1]] =
                                    [@ EXCEPT !.result = "value", !.value = <<message.data>>]]
               /\ wire' = IF message.type \in {"event", "error"}
                          THEN [wire EXCEPT ![channel] = Append(@, message.data)]
                          ELSE wire
        /\ lastOp' = Op("message", "c1", [type |-> message.type])
        /\ UNCHANGED <<calls, callsMeta, events, eventsMeta, subscriptions, fetches>>
        /\ UNCHANGED <<agents, agentsMeta, view, viewer>>

\* An error event on the socket.
SocketError ==
    /\ sockets[1].readyState # "CLOSED"
    /\ sockets' = <<wsOnError(sockets[1])>>
    /\ lastOp' = Op("error", "c1", NoArg)
    /\ UNCHANGED <<calls, callsMeta, events, eventsMeta, subscriptions, polls, wire, fetches>>
    /\ UNCHANGED <<agents, agentsMeta, view, viewer>>

\* The close event: every promise that onclose resolves reports done.
Close ==
    /\ sockets[1].readyState # "CLOSED"
    /\ LET after == onclose([sockets[1] EXCEPT !.readyState = "CLOSED"])
           ended(resolvers, waiting) ==
               {c \in 1..Len(polls[waiting]) :
                    /\ \E k \in 1..Len(sockets[1][resolvers]) : sockets[1][resolvers][k] = c
                    /\ after[resolvers] = <<>>}
       IN  /\ sockets' = <<after>>
           /\ polls' = [events |-> [c \in 1..Len(polls.events) |->
                                      IF c \in ended("eventResolvers", "events")
                                      THEN [polls.events[c] EXCEPT !.result = "done"]
                                      ELSE polls.events[c]],
                        errors |-> [c \in 1..Len(polls.errors) |->
                                      IF c \in ended("errorResolvers", "errors")
                                      THEN [polls.errors[c] EXCEPT !.result = "done"]
                                      ELSE polls.errors[c]]]
    /\ lastOp' = Op("close", "c1", [sock |-> 1])
    /\ UNCHANGED <<calls, callsMeta, events, eventsMeta, subscriptions, wire, fetches>>
    /\ UNCHANGED <<agents, agentsMeta, view, viewer>>

\* A consumer calls the handle's close().
CloseHandle ==
    /\ sockets' = <<closeHandle(sockets[1])>>
    /\ lastOp' = Op("closeHandle", "c1", NoArg)
    /\ UNCHANGED <<calls, callsMeta, events, eventsMeta, subscriptions, polls, wire, fetches>>
    /\ UNCHANGED <<agents, agentsMeta, view, viewer>>

-----------------------------------------------------------------------------
(* The two loops of one subscription, one step per continuation: a message *)
(* task resolves the promise a loop awaits and the loop's continuation is  *)
(* a step of its own.  The subscription's socket is sockets[1];            *)
(* polls[channel] holds the value of the resolved promise until the loop   *)
(* takes it.  Letting other tasks run before the continuation allows more  *)
(* interleavings than the microtask queue does.                            *)

\* A message event on the open socket: wakes the loop that awaits the item,
\* or buffers it.
LoopsMessage ==
    \E message \in WSMessages("c1") :
        /\ sockets[1].readyState = "OPEN"
        /\ Len(sockets[1].eventQueue) + Len(sockets[1].errorQueue) < MaxBacklog
        /\ LET d == wsOnMessage(sockets[1], message)
               channel == ChannelOf(message)
           IN  IF d.resolved = <<>>
               THEN /\ sockets' = <<d.sock>>
                    /\ UNCHANGED polls
               ELSE /\ sockets' = <<IF channel = "events"
                                    THEN [d.sock EXCEPT !.evLoop = "resumed"]
                                    ELSE [d.sock EXCEPT !.errLoop = "resumed"]>>
                    /\ polls' = [polls EXCEPT ![channel] = <<message.data>>]
        /\ lastOp' = Op("message", "c1", [type |-> message.type])
        /\ UNCHANGED <<calls, callsMeta, events, eventsMeta, subscriptions, wire, fetches>>
        /\ UNCHANGED <<agents, agentsMeta, view, viewer>>

\* The event loop continues: it applies the event it was resumed with and
\* calls next() again.
EventLoopStep ==
    /\ sockets[1].evLoop = "resumed"
    /\ LET event == polls.events[1]
           st1 == eventLoopBody([calls |-> calls, callsMeta |-> callsMeta, events |-> events],
                                "c1", event)
           nxt == eventNext(sockets[1])
       IN  /\ calls' = st1.calls
           /\ callsMeta' = st1.callsMeta
           /\ events' = st1.events
           /\ sockets' = <<[nxt.sock EXCEPT !.evLoop = IF nxt.pending THEN "awaiting"
                                                      ELSE IF nxt.done THEN "done"
                                                      ELSE "resumed"]>>
           /\ polls' = [polls EXCEPT !.events = nxt.value]
           /\ lastOp' = Op("eventLoop", "c1", event)
    /\ UNCHANGED <<eventsMeta, subscriptions, wire, fetches>>
    /\ UNCHANGED <<agents, agentsMeta, view, viewer>>

\* The error loop continues: it logs the error it was resumed with and calls
\* next() again.
ErrorLoopStep ==
    /\ sockets[1].errLoop = "resumed"
    /\ LET nxt == errorNext(sockets[1])
       IN  /\ sockets' = <<[nxt.sock EXCEPT !.errLoop = IF nxt.pending THEN "awaiting"
                                                       ELSE IF nxt.done THEN "done"
                                                       ELSE "resumed"]>>
           /\ polls' = [polls EXCEPT !.errors = nxt.value]
           /\ lastOp' = Op("errorLoop", "c1", polls.errors[1])
    /\ UNCHANGED <<calls, callsMeta, events, eventsMeta, subscriptions, wire, fetches>>
    /\ UNCHANGED <<agents, agentsMeta, view, viewer>>

-----------------------------------------------------------------------------
(* The route loader of the execution view and its two HTTP requests *)

\* The characters of the string constants the loader handles.
Text(string) ==
    CASE string = "Failed to get call: " -> <<"F", "a", "i", "l", "e", "d", " ", "t", "o", " ", "g", "e", "t", " ", "c", "a", "l", "l", ":", " ">>
      [] string = "Failed to get call events: " -> <<"F", "a", "i", "l", "e", "d", " ", "t", "o", " ", "g", "e", "t", " ", "c", "a", "l", "l", " ", "e", "v", "e", "n", "t", "s", ":", " ">>
      [] string = "Failed to fetch" -> <<"F", "a", "i", "l", "e", "d", " ", "t", "o", " ", "f", "e", "t", "c", "h">>
      [] string = "Not Found" -> <<"N", "o", "t", " ", "F", "o", "u", "n", "d">>
      [] string = "Internal Server Error" -> <<"I", "n", "t", "e", "r", "n", "a", "l", " ", "S", "e", "r", "v", "e", "r", " ", "E", "r", "r", "o", "r">>
      [] string = "404" -> <<"4", "0", "4">>
      [] string = "not found" -> <<"n", "o", "t", " ", "f", "o", "u", "n", "d">>
      [] string = "" -> <<>>

\* String.prototype.includes on character sequences (case-sensitive).
Includes(text, needle) ==
    \E i \in 0..(Len(text) - Len(needle)) : SubSeq(text, i + 1, i + Len(needle)) = needle

\* How a request fails: a response that is not ok, with its status and reason
\* phrase, or no response at all (status 0: fetch rejects with a TypeError).
NotFoundStatus == 404
ServerErrorStatus == 500

Failures ==
    {[status |-> NotFoundStatus, statusText |-> "Not Found"],
     [status |-> ServerErrorStatus, statusText |-> "Internal Server Error"],
     [status |-> 0, statusText |-> ""]}

\* error.message: `Failed to get call: ${response.statusText}` and
\* `Failed to get call events: ${response.statusText}`, as the pair of its
\* two parts; the browser's own message when there is no response.
ErrorMessage(kind, failure) ==
    IF failure.status = 0 THEN <<"Failed to fetch", "">>
    ELSE IF kind = "call" THEN <<"Failed to get call: ", failure.statusText>>
    ELSE <<"Failed to get call events: ", failure.statusText>>

\* error.message?.includes('404') || error.message?.includes('not found')
IsNotFound(message) ==
    LET text == Text(message[1]) \o Text(message[2])
    IN  Includes(text, Text("404")) \/ Includes(text, Text("not found"))

\* { loading: false, error, notFound, lastFetch: new Date() }
setError(message, notFound) ==
    [loading |-> FALSE, error |-> message, notFound |-> notFound, lastFetch |-> "date"]

\* { ...meta[callId], loading, lastFetch: loading ? meta[callId]?.lastFetch || null : new Date() }
\* A call id without metadata spreads nothing: the result has two keys only.
setLoading(meta, callId, loading) ==
    LET old == IF callId \in DOMAIN meta THEN meta[callId] ELSE EmptyRecord
        lastFetch == IF loading
                     THEN IF "lastFetch" \in DOMAIN old THEN old.lastFetch ELSE "null"
                     ELSE "date"
    IN  With(With(old, "loading", loading), "lastFetch", lastFetch)

\* The number of the loader run that issued the newest request so far.
LastRun == IF fetches = {} THEN 0
           ELSE CHOOSE n \in {f.n : f \in fetches} : \A f \in fetches : f.n <= n

InFlight(kind, C) == {f \in fetches : f.kind = kind /\ f.callId \in C /\ f.state = "inFlight"}

\* What becomes of a request: it stays in fetches as history.
Settle(f, state) == (fetches \ {f}) \cup {[f EXCEPT !.state = state]}

\* clientLoader: marks both resources as loading and issues both requests.
ClientLoader(C) ==
    \E callId \in C :
        /\ LastRun < MaxLoads
        /\ callsMeta' = With(callsMeta, callId, setLoading(callsMeta, callId, TRUE))
        /\ eventsMeta' = With(eventsMeta, callId, setLoading(eventsMeta, callId, TRUE))
        /\ fetches' = fetches \cup {[kind |-> k, callId |-> callId, n |-> LastRun + 1,
                                      state |-> "inFlight"] : k \in {"call", "events"}}
        /\ lastOp' = Op("clientLoader", callId, [n |-> LastRun + 1])
        /\ UNCHANGED <<calls, events, subscriptions, sockets, polls, wire>>
        /\ UNCHANGED <<agents, agentsMeta, view, viewer>>

\* getCall resolves: updateCall(call), then setCallLoading(callId, false).
GetCallOk(C) ==
    \E f \in InFlight("call", C), status \in CallStatus :
        /\ calls' = updateCall(calls, [id |-> f.callId, status |-> status])
        /\ callsMeta' = LET loaded == With(callsMeta, f.callId, Loaded)
                        IN  With(loaded, f.callId, setLoading(loaded, f.callId, FALSE))
        /\ fetches' = Settle(f, "ok")
        /\ lastOp' = Op("getCallOk", f.callId, [n |-> f.n])
        /\ UNCHANGED <<events, eventsMeta, subscriptions, sockets, polls, wire>>
        /\ UNCHANGED <<agents, agentsMeta, view, viewer>>

\* getCall rejects: setCallError(callId, error.message, notFound).
GetCallFailed(C) ==
    \E f \in InFlight("call", C), failure \in Failures :
        /\ LET message == ErrorMessage("call", failure)
           IN  callsMeta' = With(callsMeta, f.callId, setError(message, IsNotFound(message)))
        /\ fetches' = Settle(f, "failed")
        /\ lastOp' = Op("getCallFailed", f.callId, [n |-> f.n, failure |-> failure])
        /\ UNCHANGED <<calls, events, eventsMeta, subscriptions, sockets, polls, wire>>
        /\ UNCHANGED <<agents, agentsMeta, view, viewer>>

\* getCallEvents resolves: setCallEvents(callId, events), then
\* setEventsLoading(callId, false).
GetCallEventsOk(C) ==
    \E f \in InFlight("events", C), fetched \in StreamSnapshots :
        /\ events' = setCallEvents(events, f.callId, fetched)
        /\ eventsMeta' = LET loaded == With(eventsMeta, f.callId, Loaded)
                         IN  With(loaded, f.callId, setLoading(loaded, f.callId, FALSE))
        /\ fetches' = Settle(f, "ok")
        /\ lastOp' = Op("getCallEventsOk", f.callId, [n |-> f.n])
        /\ UNCHANGED <<calls, callsMeta, subscriptions, sockets, polls, wire>>
        /\ UNCHANGED <<agents, agentsMeta, view, viewer>>

\* getCallEvents rejects: setEventsError(callId, error.message, notFound).
GetCallEventsFailed(C) ==
    \E f \in InFlight("events", C), failure \in Failures :
        /\ LET message == ErrorMessage("events", failure)
           IN  eventsMeta' = With(eventsMeta, f.callId, setError(message, IsNotFound(message)))
        /\ fetches' = Settle(f, "failed")
        /\ lastOp' = Op("getCallEventsFailed", f.callId, [n |-> f.n, failure |-> failure])
        /\ UNCHANGED <<calls, callsMeta, events, subscriptions, sockets, polls, wire>>
        /\ UNCHANGED <<agents, agentsMeta, view, viewer>>

-----------------------------------------------------------------------------
(* Two calls side by side: what arrives for one call may name the other *)

\* The four metadata actions, called on their own. The error is an
\* Error.message of a failed request, notFound what the caller derives from it.
SetCallError(C, F) ==
    \E callId \in C, failure \in F :
        /\ LET message == ErrorMessage("call", failure)
           IN  callsMeta' = With(callsMeta, callId, setError(message, IsNotFound(message)))
        /\ lastOp' = Op("setCallError", callId, [failure |-> failure])
        /\ UNCHANGED <<calls, events, eventsMeta, subscriptions, sockets>>
        /\ UNCHANGED <<polls, wire, fetches, agents, agentsMeta, view, viewer>>

SetCallLoading(C, L) ==
    \E callId \in C, loading \in L :
        /\ callsMeta' = With(callsMeta, callId, setLoading(callsMeta, callId, loading))
        /\ lastOp' = Op("setCallLoading", callId, [loading |-> loading])
        /\ UNCHANGED <<calls, events, eventsMeta, subscriptions, sockets>>
        /\ UNCHANGED <<polls, wire, fetches, agents, agentsMeta, view, viewer>>

SetEventsError(C, F) ==
    \E callId \in C, failure \in F :
        /\ LET message == ErrorMessage("events", failure)
           IN  eventsMeta' = With(eventsMeta, callId, setError(message, IsNotFound(message)))
        /\ lastOp' = Op("setEventsError", callId, [failure |-> failure])
        /\ UNCHANGED <<calls, callsMeta, events, subscriptions, sockets>>
        /\ UNCHANGED <<polls, wire, fetches, agents, agentsMeta, view, viewer>>

SetEventsLoading(C, L) ==
    \E callId \in C, loading \in L :
        /\ eventsMeta' = With(eventsMeta, callId, setLoading(eventsMeta, callId, loading))
        /\ lastOp' = Op("setEventsLoading", callId, [loading |-> loading])
        /\ UNCHANGED <<calls, callsMeta, events, subscriptions, sockets>>
        /\ UNCHANGED <<polls, wire, fetches, agents, agentsMeta, view, viewer>>

\* The events the backend may put on a stream or in a snapshot: of either call.
AnyEvents == UNION {StreamEvents(c) : c \in CallIds}

\* The snapshots GET /calls/{id}/events may return, whatever call their
\* events name (thoughts only).
AnySnapshots == SeqsUpTo({e \in AnyEvents : e.new_status = "none"}, MaxSnapshot)

\* The event messages a socket may receive, whatever call their event names.
AnyMessages == [type : {"event"}, data : AnyEvents]

\* The failure the metadata actions are called with next to another call.
TwoCallsFailures == {f \in Failures : f.status = NotFoundStatus}

\* A message task on an open socket, as WsMessage, for any event message.
WsMessageAny ==
    \E i \in 1..Len(sockets) :
        /\ sockets[i].readyState = "OPEN"
        /\ \E message \in AnyMessages :
            LET r == onmessage([calls |-> calls, callsMeta |-> callsMeta, events |-> events],
                               sockets[i], message)
            IN  /\ calls' = r.st.calls
                /\ callsMeta' = r.st.callsMeta
                /\ events' = r.st.events
                /\ sockets' = [sockets EXCEPT ![i] = r.sock]
                /\ lastOp' = Op("message", sockets[i].callId,
                               [sock |-> i, message |-> message,
                                consumed |-> /\ message.type = "event"
                                             /\ Len(sockets[i].eventResolvers) > 0])
        /\ UNCHANGED <<eventsMeta, subscriptions>>
        /\ UNCHANGED <<polls, wire, fetches, agents, agentsMeta, view, viewer>>

-----------------------------------------------------------------------------

(* Agents: store.agents, store.agentsMeta and the route loaders that fill them *)

AgentNames == {"a1", "a2"}

\* An Agent as the backend describes it: its name and the rest of its fields.
Agent == [name : AgentNames, description : {"d1", "d2"}]

\* A Record<string, Agent> as listAgents returns it: keyed by the agents' names.
AgentMaps ==
    UNION {{m \in [N -> Agent] : \A n \in N : m[n].name = n} : N \in SUBSET AgentNames}

\* { [agentName]: agent }
Single(agent) == [n \in {agent.name} |-> agent]

\* Object.keys(agents).reduce(..., state.agentsMeta): the metadata of every
\* agent of the map is reset, the metadata of every other agent is kept.
setAgentsMeta(meta, map) ==
    [n \in DOMAIN meta \cup DOMAIN map |-> IF n \in DOMAIN map THEN Loaded ELSE meta[n]]

\* setAgents: { agents, agentsMeta: ... }, the new map taking the place of the old.
setAgentsMerge(old, meta, map) ==
    [agents |-> [n \in DOMAIN old \cup DOMAIN map |-> IF n \in DOMAIN map THEN map[n] ELSE old[n]],
     agentsMeta |-> setAgentsMeta(meta, map)]

setAgents(old, meta, map) ==
    [agents |-> map, agentsMeta |-> setAgentsMeta(meta, map)]

\* setAgentError(agentName, error, notFound): no loader calls it.
setAgentError(meta, agentName, message, notFound) ==
    With(meta, agentName, setError(message, notFound))

\* The calls listAgentCalls returns for an agent.
ListedCalls == {<<>>} \cup {<<[id |-> "c1", status |-> s]>> : s \in CallStatus}

RECURSIVE updateCalls(_, _)
\* callsResponse.calls.forEach(call => store.updateCall(call))
updateCalls(cs, listed) ==
    IF listed = <<>> THEN cs ELSE updateCalls(updateCall(cs, Head(listed)), Tail(listed))

Request(kind, name) == [kind |-> kind, callId |-> name, n |-> LastRun + 1, state |-> "inFlight"]

\* clientLoader of the agent route: Promise.all([getAgent, listAgentCalls]) is
\* issued and the loader returns null; nothing is written to the store.
AgentRouteLoader ==
    \E name \in AgentNames :
        /\ LastRun < MaxLoads
        /\ fetches' = fetches \cup {Request("agentRoute", name)}
        /\ lastOp' = Op("agentRouteLoader", name, [n |-> LastRun + 1])
        /\ UNCHANGED <<calls, callsMeta, events, eventsMeta, subscriptions, sockets, polls, wire>>
        /\ UNCHANGED <<agents, agentsMeta, view, viewer>>

\* Both requests succeed: setAgents({ [agentName]: agent }), then updateCall
\* for every listed call.
AgentRouteOk ==
    \E f \in InFlight("agentRoute", AgentNames), agent \in Agent, listed \in ListedCalls :
        /\ agent.name = f.callId
        /\ LET set == setAgents(agents, agentsMeta, Single(agent))
           IN  /\ agents' = set.agents
               /\ agentsMeta' = set.agentsMeta
        /\ calls' = updateCalls(calls, listed)
        /\ fetches' = Settle(f, "ok")
        /\ lastOp' = Op("agentRouteOk", f.callId, [n |-> f.n, map |-> Single(agent)])
        /\ UNCHANGED <<callsMeta, events, eventsMeta, subscriptions, sockets, polls, wire>>
        /\ UNCHANGED <<view, viewer>>

\* One of the two requests fails: Promise.all rejects, the chain has a then()
\* and no catch(), so the rejection is reported as unhandled and no store
\* action runs.
AgentRouteFailed ==
    \E f \in InFlight("agentRoute", AgentNames), failure \in Failures :
        /\ fetches' = Settle(f, "unhandled")
        /\ lastOp' = Op("agentRouteFailed", f.callId, [n |-> f.n, failure |-> failure])
        /\ UNCHANGED <<calls, callsMeta, events, eventsMeta, subscriptions, sockets, polls, wire>>
        /\ UNCHANGED <<agents, agentsMeta, view, viewer>>

\* clientLoader of the dashboard layout: listAgents is issued.
DashboardLoader ==
    /\ LastRun < MaxLoads
    /\ fetches' = fetches \cup {Request("agentList", "none")}
    /\ lastOp' = Op("dashboardLoader", "none", [n |-> LastRun + 1])
    /\ UNCHANGED <<calls, callsMeta, events, eventsMeta, subscriptions, sockets, polls, wire>>
    /\ UNCHANGED <<agents, agentsMeta, view, viewer>>

\* listAgents resolves: setAgents(agents).
ListAgentsOk ==
    \E f \in InFlight("agentList", {"none"}), map \in AgentMaps :
        /\ LET set == setAgents(agents, agentsMeta, map)
           IN  /\ agents' = set.agents
               /\ agentsMeta' = set.agentsMeta
        /\ fetches' = Settle(f, "ok")
        /\ lastOp' = Op("listAgentsOk", "none", [n |-> f.n, map |-> map])
        /\ UNCHANGED <<calls, callsMeta, events, eventsMeta, subscriptions, sockets, polls, wire>>
        /\ UNCHANGED <<view, viewer>>

\* listAgents rejects: again a then() without a catch().
ListAgentsFailed ==
    \E f \in InFlight("agentList", {"none"}), failure \in Failures :
        /\ fetches' = Settle(f, "unhandled")
        /\ lastOp' = Op("listAgentsFailed", "none", [n |-> f.n, failure |-> failure])
        /\ UNCHANGED <<calls, callsMeta, events, eventsMeta, subscriptions, sockets, polls, wire>>
        /\ UNCHANGED <<agents, agentsMeta, view, viewer>>

-----------------------------------------------------------------------------

(* ExecutionView: the execution-detail route component and its effect *)

\* No execution view is mounted.
NoView == [mounted |-> FALSE, callId |-> "none", status |-> "none", cleanup |-> FALSE]

\* call?.status as the component reads it from the store.
StatusOf(callId) == IF callId \in DOMAIN calls THEN calls[callId].status ELSE "undefined"

\* callId && call && (call.status === 'running' || call.status === 'pending')
effectSubscribes(callId) == StatusOf(callId) \in {"running", "pending"}

\* The body of the effect: subscribeToCall(callId) when the call is cached as
\* running or pending, and then a cleanup is returned. The call is not
\* terminal then, so subscribeToCall returns early only for a registry entry.
RunEffect(callId, subs, socks) ==
    IF effectSubscribes(callId) /\ callId \notin DOMAIN subs
    THEN [subscriptions |-> With(subs, callId, Len(socks) + 1),
          sockets |-> Append(socks, StartLoops(NewSocket(callId)))]
    ELSE [subscriptions |-> subs, sockets |-> socks]

\* The cleanup the last effect returned, if it returned one:
\* store.unsubscribeFromCall(callId).
runCleanup(hasCleanup, callId, subs, socks) ==
    IF hasCleanup /\ callId \in DOMAIN subs
    THEN [subscriptions |-> Without(subs, callId),
          sockets |-> [socks EXCEPT ![subs[callId]] = closeHandle(@)]]
    ELSE [subscriptions |-> subs, sockets |-> socks]

\* The route has been entered (its loader has run): the component mounts
\* and its effect runs for the first time.
MountView(C) ==
    \E callId \in C :
        /\ ~view.mounted
        /\ \E f \in fetches : f.kind = "call" /\ f.callId = callId
        /\ LET r == RunEffect(callId, subscriptions, sockets)
           IN  /\ Len(r.sockets) <= MaxSockets
               /\ subscriptions' = r.subscriptions
               /\ sockets' = r.sockets
        /\ view' = [mounted |-> TRUE, callId |-> callId, status |-> StatusOf(callId),
                    cleanup |-> effectSubscribes(callId)]
        /\ lastOp' = Op("mountView", callId, [subscribed |-> effectSubscribes(callId)])
        /\ UNCHANGED <<calls, callsMeta, events, eventsMeta, polls, wire, fetches>>
        /\ UNCHANGED <<agents, agentsMeta, viewer>>

\* The cached status differs from the one the last effect saw: the cleanup
\* of the last effect runs, then the effect again.
ViewEffect ==
    /\ view.mounted
    /\ StatusOf(view.callId) # view.status
    /\ LET c == runCleanup(view.cleanup, view.callId, subscriptions, sockets)
           r == RunEffect(view.callId, c.subscriptions, c.sockets)
       IN  /\ Len(r.sockets) <= MaxSockets
           /\ subscriptions' = r.subscriptions
           /\ sockets' = r.sockets
    /\ view' = [view EXCEPT !.status = StatusOf(view.callId),
                            !.cleanup = effectSubscribes(view.callId)]
    /\ lastOp' = Op("viewEffect", view.callId, [subscribed |-> effectSubscribes(view.callId)])
    /\ UNCHANGED <<calls, callsMeta, events, eventsMeta, polls, wire, fetches>>
    /\ UNCHANGED <<agents, agentsMeta, viewer>>

\* The user leaves the execution view: the component unmounts and the
\* cleanup of the last effect runs.
LeaveView ==
    /\ view.mounted
    /\ LET c == runCleanup(view.cleanup, view.callId, subscriptions, sockets)
       IN  /\ subscriptions' = c.subscriptions
           /\ sockets' = c.sockets
    /\ view' = NoView
    /\ lastOp' = Op("leaveView", view.callId, [cleanup |-> view.cleanup])
    /\ UNCHANGED <<calls, callsMeta, events, eventsMeta, polls, wire, fetches>>
    /\ UNCHANGED <<agents, agentsMeta, viewer>>

-----------------------------------------------------------------------------
(* ExecutionViewer: the test console's executions and its auto-scroll *)

\* currentExecution === null
NoExecution == [id |-> 0, events |-> <<>>, status |-> "null", shared |-> FALSE]

\* useState(false), useState(null), useState([]), useState(null), useRef(false),
\* useRef(0); no socket and no handleExecute in progress.  `execution` is the
\* object local to the last handleExecute call, `wsCount` and `received` are
\* history: the messages its socket has delivered, and those of them that
\* came while the execution was running.
NewViewer ==
    [isExecuting |-> FALSE, currentExecution |-> NoExecution, previousExecutions |-> <<>>,
     selectedExecution |-> 0, execution |-> NoExecution, ws |-> "none", wsCount |-> 0,
     received |-> <<>>, isUserScrolling |-> FALSE, lastScrollTop |-> 0, scrollTop |-> 0]

\* An ExecutionEvent: the goal, a WebSocket event (the n-th of its socket),
\* the completion or the error.
ViewerEvent(type, n) == [type |-> type, n |-> n]

\* Pixels: the height of the scroll container, the height of one event card,
\* the grain of the user's scrolling, and the distance from the bottom below
\* which the view counts as being at the bottom.
ClientHeight == 100
EventHeight == 60
ScrollStep == 20
BottomThreshold == 50

\* setPreviousExecutions(prev => [execution, ...prev].slice(0, 10))
KeepLast == 10

\* selectedExecution ? (previousExecutions.find(e => e.id === selectedExecution)
\*                      || currentExecution) : currentExecution
displayExecution(v) ==
    IF /\ v.selectedExecution # 0
       /\ \E i \in 1..Len(v.previousExecutions) : v.previousExecutions[i].id = v.selectedExecution
    THEN v.previousExecutions[CHOOSE i \in 1..Len(v.previousExecutions) :
                                  v.previousExecutions[i].id = v.selectedExecution]
    ELSE v.currentExecution

\* The scroll container is rendered only for an execution to display.
HasContainer(v) == displayExecution(v) # NoExecution

\* scrollHeight: the cards of the displayed events, at least the client height.
ScrollHeight(v) ==
    LET content == Len(displayExecution(v).events) * EventHeight
    IN  IF content > ClientHeight THEN content ELSE ClientHeight

MaxScrollTop(v) == ScrollHeight(v) - ClientHeight

\* isAtBottom(): true without a container.
isAtBottom(v) ==
    \/ ~HasContainer(v)
    \/ ScrollHeight(v) - v.scrollTop - ClientHeight < BottomThreshold

\* handleScroll, the container's onScroll.
handleScroll(v) ==
    IF ~HasContainer(v) THEN v
    ELSE LET up == IF v.scrollTop < v.lastScrollTop THEN TRUE ELSE v.isUserScrolling
         IN  [v EXCEPT !.isUserScrolling = IF isAtBottom(v) THEN FALSE ELSE up,
                       !.lastScrollTop = v.scrollTop]

\* The browser lays out the new content: a new container starts at the top,
\* a kept one has its scrollTop clamped to the new range.
Layout(old, new) ==
    IF ~HasContainer(new) \/ ~HasContainer(old) THEN [new EXCEPT !.scrollTop = 0]
    ELSE IF new.scrollTop > MaxScrollTop(new) THEN [new EXCEPT !.scrollTop = MaxScrollTop(new)]
    ELSE new

\* scrollToBottom(): scrollEndRef.current.scrollIntoView, when it is rendered.
scrollToBottom(v) == IF HasContainer(v) THEN [v EXCEPT !.scrollTop = MaxScrollTop(v)] ELSE v

\* The effect: if (!isUserScrollingRef.current || isAtBottom()) scrollToBottom().
autoScroll(v) == IF ~v.isUserScrolling \/ isAtBottom(v) THEN scrollToBottom(v) ELSE v

\* The dependency [currentExecution?.events] is compared by identity: the
\* array of the closure's execution object is the same array before and after
\* a push, every array built by ws.onmessage is a new one.
eventsIdentityChanged(old, new) ==
    \/ (old.currentExecution = NoExecution) # (new.currentExecution = NoExecution)
    \/ /\ new.currentExecution # NoExecution
       /\ ~(/\ old.currentExecution.shared
            /\ new.currentExecution.shared
            /\ old.currentExecution.id = new.currentExecution.id)

\* A render after a state update: layout, then the effect when its
\* dependency has changed, then the scroll event if the position has moved.
Render(old, new) ==
    LET laid == Layout(old, new)
        scrolled == IF eventsIdentityChanged(old, new) THEN autoScroll(laid) ELSE laid
        moved == /\ HasContainer(scrolled)
                 /\ scrolled.scrollTop # (IF HasContainer(old) THEN old.scrollTop ELSE 0)
    IN  IF moved THEN handleScroll(scrolled) ELSE scrolled

ViewerFrame ==
    UNCHANGED <<calls, callsMeta, events, eventsMeta, subscriptions, sockets, polls, wire,
                fetches, agents, agentsMeta, view>>

\* handleExecute up to `await testAgent(...)`: a new execution holding the
\* goal event becomes the current one and a socket is created.
HandleExecute ==
    /\ ~viewer.isExecuting
    /\ viewer.selectedExecution = 0
    /\ viewer.execution.id < MaxExecutions
    /\ LET id == viewer.execution.id + 1
           execution == [id |-> id, events |-> <<ViewerEvent("initial_goal", 0)>>,
                         status |-> "running", shared |-> TRUE]
       IN  /\ viewer' = Render(viewer, [viewer EXCEPT !.isExecuting = TRUE,
                                                      !.currentExecution = execution,
                                                      !.selectedExecution = id,
                                                      !.execution = execution,
                                                      !.ws = "CONNECTING",
                                                      !.wsCount = 0,
                                                      !.received = <<>>])
           /\ lastOp' = Op("handleExecute", "none", [id |-> id])
    /\ ViewerFrame

\* ws.onopen: logs.
ViewerWsOpen ==
    /\ viewer.ws = "CONNECTING"
    /\ viewer' = [viewer EXCEPT !.ws = "OPEN"]
    /\ lastOp' = Op("viewerWsOpen", "none", NoArg)
    /\ ViewerFrame

\* ws.onmessage: the event is appended to a copy of the current execution's
\* list, if there is a current execution; a payload that is not JSON is
\* logged.
ViewerWsMessage ==
    \E wellFormed \in BOOLEAN :
        /\ viewer.ws = "OPEN"
        /\ viewer.wsCount < MaxViewerEvents
        /\ LET n == viewer.wsCount + 1
               prev == viewer.currentExecution
               appended == IF wellFormed /\ prev # NoExecution
                           THEN [prev EXCEPT !.events = Append(@, ViewerEvent("ws", n)),
                                             !.shared = FALSE]
                           ELSE prev
           IN  /\ viewer' = Render(viewer,
                                   [viewer EXCEPT !.currentExecution = appended,
                                                  !.wsCount = n,
                                                  !.received = IF wellFormed /\ viewer.isExecuting
                                                               THEN Append(@, n) ELSE @])
               /\ lastOp' = Op("viewerWsMessage", "none", [n |-> n, wellFormed |-> wellFormed])
        /\ ViewerFrame

\* The rest of handleExecute once testAgent has settled: the completion or
\* error event is pushed onto the closure's execution, which then replaces
\* the current execution and goes to the front of the previous ones.  When
\* testAgent resolved the socket is closed; when it rejected it is left open.
Finished(v, type, status) ==
    LET execution == [v.execution EXCEPT !.events = Append(@, ViewerEvent(type, 0)),
                                         !.status = status]
    IN  [v EXCEPT !.execution = execution,
                  !.currentExecution = execution,
                  !.previousExecutions = SubSeq(<<execution>> \o @, 1,
                                                IF Len(@) + 1 < KeepLast THEN Len(@) + 1
                                                ELSE KeepLast),
                  !.isExecuting = FALSE]

TestAgentResolves ==
    \E success \in BOOLEAN :
        /\ viewer.isExecuting
        /\ LET done == Finished(viewer, "goal_completed", IF success THEN "completed" ELSE "error")
           IN  viewer' = Render(viewer, [done EXCEPT !.ws = IF @ = "CLOSED" THEN @ ELSE "CLOSING"])
        /\ lastOp' = Op("testAgentResolves", "none", [success |-> success])
        /\ ViewerFrame

TestAgentRejects ==
    /\ viewer.isExecuting
    /\ viewer' = Render(viewer, Finished(viewer, "error", "error"))
    /\ lastOp' = Op("testAgentRejects", "none", NoArg)
    /\ ViewerFrame

\* The socket's close event; the component has no onclose handler.
ViewerWsClose ==
    /\ viewer.ws \in {"CONNECTING", "OPEN", "CLOSING"}
    /\ viewer' = [viewer EXCEPT !.ws = "CLOSED"]
    /\ lastOp' = Op("viewerWsClose", "none", NoArg)
    /\ ViewerFrame

\* The user scrolls the container to another position: onScroll.
UserScroll ==
    \E top \in 0..MaxScrollTop(viewer) :
        /\ HasContainer(viewer)
        /\ top % ScrollStep = 0
        /\ top # viewer.scrollTop
        /\ viewer' = handleScroll([viewer EXCEPT !.scrollTop = top])
        /\ lastOp' = Op("userScroll", "none", [top |-> top])
        /\ ViewerFrame

\* The history select: 'current' or one of the previous executions.
SelectExecution ==
    \E id \in {0} \cup {viewer.previousExecutions[i].id : i \in 1..Len(viewer.previousExecutions)} :
        /\ viewer.previousExecutions # <<>>
        /\ id # viewer.selectedExecution
        /\ viewer' = Render(viewer, [viewer EXCEPT !.selectedExecution = id])
        /\ lastOp' = Op("selectExecution", "none", [id |-> id])
        /\ ViewerFrame

\* The "Clear log" button.
ClearLog ==
    /\ viewer.currentExecution # NoExecution \/ viewer.selectedExecution # 0
    /\ viewer' = Render(viewer, [viewer EXCEPT !.currentExecution = NoExecution,
                                               !.selectedExecution = 0])
    /\ lastOp' = Op("clearLog", "none", NoArg)
    /\ ViewerFrame

-----------------------------------------------------------------------------

(* Specifications *)

\* Nothing on either sequence of a subscription.
NoItems == [events |-> <<>>, errors |-> <<>>]

Init ==
    /\ calls = EmptyRecord
    /\ callsMeta = EmptyRecord
    /\ events = EmptyRecord
    /\ eventsMeta = EmptyRecord
    /\ subscriptions = EmptyRecord
    /\ sockets = <<>>
    /\ lastOp = Op("init", "none", NoArg)
    /\ polls = NoItems
    /\ wire = NoItems
    /\ fetches = {}
    /\ agents = EmptyRecord
    /\ agentsMeta = EmptyRecord
    /\ view = NoView
    /\ viewer = NewViewer

\* The store with its sockets.
Next ==
    \/ AddEvent(StreamEvents("c1"))
    \/ SetCallEvents({"c1"}, StreamSnapshots)
    \/ UpdateCall({"c1"})
    \/ SubscribeToCall({"c1"})
    \/ UnsubscribeFromCall({"c1"})
    \/ ClearCall({"c1"})
    \/ WsOpen
    \/ WsMessage
    \/ WsClose

Spec == Init /\ [][Next]_vars

\* The event lists of the store alone, under every order of addEvent,
\* setCallEvents and clearCall.
NextMerge ==
    \/ AddEvent(MergeEvents)
    \/ SetCallEvents({"c1"}, MergeSnapshots)
    \/ ClearCall({"c1"})

SpecMerge == Init /\ [][NextMerge]_vars

\* A bare adapter right after agentClient.subscribeToCall("c1") returned it.
InitAdapter ==
    /\ calls = EmptyRecord
    /\ callsMeta = EmptyRecord
    /\ events = EmptyRecord
    /\ eventsMeta = EmptyRecord
    /\ subscriptions = EmptyRecord
    /\ sockets = <<NewSocket("c1")>>
    /\ lastOp = Op("init", "none", NoArg)
    /\ polls = NoItems
    /\ wire = NoItems
    /\ fetches = {}
    /\ agents = EmptyRecord
    /\ agentsMeta = EmptyRecord
    /\ view = NoView
    /\ viewer = NewViewer

NextAdapter ==
    \/ NextItem
    \/ WsOpen
    \/ Message
    \/ SocketError
    \/ Close
    \/ CloseHandle

SpecAdapter == InitAdapter /\ [][NextAdapter]_vars

\* The store right after subscribeToCall("c1") for a cached running call.
InitLoops ==
    /\ calls = [c \in {"c1"} |-> [id |-> "c1", status |-> "running"]]
    /\ callsMeta = [c \in {"c1"} |-> Loaded]
    /\ events = EmptyRecord
    /\ eventsMeta = EmptyRecord
    /\ subscriptions = [c \in {"c1"} |-> 1]
    /\ sockets = <<StartLoops(NewSocket("c1"))>>
    /\ lastOp = Op("subscribeToCall", "c1", [early |-> FALSE])
    /\ polls = NoItems
    /\ wire = NoItems
    /\ fetches = {}
    /\ agents = EmptyRecord
    /\ agentsMeta = EmptyRecord
    /\ view = NoView
    /\ viewer = NewViewer

NextLoops ==
    \/ WsOpen
    \/ LoopsMessage
    \/ EventLoopStep
    \/ ErrorLoopStep
    \/ WsClose

\* A continuation whose promise has been resolved is run by the microtask
\* queue: each loop step is weakly fair.
SpecLoops ==
    /\ InitLoops
    /\ [][NextLoops]_vars
    /\ WF_vars(EventLoopStep)
    /\ WF_vars(ErrorLoopStep)

\* The route loader of the execution view of call "c1" and the outcomes of
\* its requests, in any order.
NextFetch ==
    \/ ClientLoader({"c1"})
    \/ GetCallOk({"c1"})
    \/ GetCallFailed({"c1"})
    \/ GetCallEventsOk({"c1"})
    \/ GetCallEventsFailed({"c1"})

SpecFetch == Init /\ [][NextFetch]_vars

\* The same three actions on events that carry a sequence number.
NextSequence ==
    \/ AddEvent(SequencedEvents)
    \/ SetCallEvents({"c1"}, SequencedSnapshots)
    \/ ClearCall({"c1"})

SpecSequence == Init /\ [][NextSequence]_vars

-----------------------------------------------------------------------------
\* The route loaders that fetch agents, alone.
NextAgents ==
    \/ AgentRouteLoader
    \/ AgentRouteOk
    \/ AgentRouteFailed
    \/ DashboardLoader
    \/ ListAgentsOk
    \/ ListAgentsFailed

SpecAgents == Init /\ [][NextAgents]_vars

-----------------------------------------------------------------------------

\* Call "c2" is cached with its event history, and its subscription is still
\* registered although its connection has failed; nothing is cached of "c1".
InitTwoCalls ==
    /\ calls = [c \in {"c2"} |-> [id |-> "c2", status |-> "running"]]
    /\ callsMeta = [c \in {"c2"} |-> Loaded]
    /\ events = [c \in {"c2"} |-> <<CHOOSE e \in StreamEvents("c2") : e.new_status = "none">>]
    /\ eventsMeta = [c \in {"c2"} |-> Loaded]
    /\ subscriptions = [c \in {"c2"} |-> 1]
    /\ sockets = <<onclose([StartLoops(NewSocket("c2")) EXCEPT !.readyState = "CLOSED"])>>
    /\ lastOp = Op("close", "c2", [sock |-> 1])
    /\ polls = NoItems
    /\ wire = NoItems
    /\ fetches = {}
    /\ agents = EmptyRecord
    /\ agentsMeta = EmptyRecord
    /\ view = NoView
    /\ viewer = NewViewer

\* Every store action addressed to "c1", and the tasks of its sockets, next
\* to the cached call "c2".
NextTwoCalls ==
    \/ UpdateCall({"c1"})
    \/ SetCallError({"c1"}, TwoCallsFailures)
    \/ SetCallLoading({"c1"}, {FALSE})
    \/ SetCallEvents({"c1"}, AnySnapshots)
    \/ SetEventsError({"c1"}, TwoCallsFailures)
    \/ SetEventsLoading({"c1"}, {FALSE})
    \/ SubscribeToCall({"c1"})
    \/ UnsubscribeFromCall({"c1"})
    \/ ClearCall({"c1"})
    \/ WsOpen
    \/ WsMessageAny
    \/ WsClose

SpecTwoCalls == InitTwoCalls /\ [][NextTwoCalls]_vars

-----------------------------------------------------------------------------

\* The execution view of call "c1": its loader and the summary request, the
\* component's effect, and the sockets the effect opens.
NextView ==
    \/ ClientLoader({"c1"})
    \/ GetCallOk({"c1"})
    \/ GetCallFailed({"c1"})
    \/ MountView({"c1"})
    \/ ViewEffect
    \/ LeaveView
    \/ WsOpen
    \/ WsMessage
    \/ WsClose

SpecView == Init /\ [][NextView]_vars

-----------------------------------------------------------------------------

\* The test console: executions, their socket, and the user's scrolling.
NextViewer ==
    \/ HandleExecute
    \/ ViewerWsOpen
    \/ ViewerWsMessage
    \/ TestAgentResolves
    \/ TestAgentRejects
    \/ ViewerWsClose
    \/ UserScroll
    \/ SelectExecution
    \/ ClearLog

SpecViewer == Init /\ [][NextViewer]_vars

-----------------------------------------------------------------------------

(* Properties *)

IsSortedByTimestamp(list) ==
    \A i, j \in 1..Len(list) : i < j => list[i].timestamp <= list[j].timestamp

NoDuplicateIds(list) ==
    \A i, j \in 1..Len(list) : list[i].id = list[j].id => i = j

\* A socket that is connecting or open and whose event loop is still running.
Live(sock) ==
    /\ sock.readyState \in {"CONNECTING", "OPEN"}
    /\ sock.evLoop = "awaiting"

LiveSockets(c) == {i \in 1..Len(sockets) : sockets[i].callId = c /\ Live(sockets[i])}

\* The last task was a message on some socket whose event loop consumed the
\* event it carried (addEvent, and updateCall for a status change).
ConsumedEvent ==
    /\ lastOp.op = "message"
    /\ lastOp.arg.consumed

\* C1: after any sequence of addEvent and setCallEvents calls, every event
\* list is sorted ascending by timestamp and holds each event id at most once.
C1_SortedNoDuplicates ==
    \A c \in DOMAIN events :
        IsSortedByTimestamp(events[c]) /\ NoDuplicateIds(events[c])

\* C1 witness: a fetched history of one event landed on a list that already
\* held a later event, and was sorted in front of it.
C1_Witness ==
    /\ lastOp.op = "setCallEvents"
    /\ lastOp.arg.length = 1
    /\ "c1" \in DOMAIN events
    /\ Len(events["c1"]) = 2
    /\ events["c1"][1].id \in lastOp.arg.ids
    /\ events["c1"][2].id \notin lastOp.arg.ids
    /\ events["c1"][1].timestamp < events["c1"][2].timestamp

\* C2: at most one live subscription exists per call id at any time.
C2_AtMostOneLiveSubscription ==
    \A c \in CallIds : Cardinality(LiveSockets(c)) <= 1

\* C3: once close() has been called on a subscription's handle, its event
\* loop applies no further event to the store.
C3_NoMutationAfterClose ==
    ConsumedEvent => ~sockets[lastOp.arg.sock].closeCalled

\* C4: the moment a terminal status is reported for a call, by a consumed
\* StatusChange event or by updateCall, its subscription is closed and
\* removed from the registry.
C4_TerminalStatusClosesSubscription ==
    \A c \in DOMAIN calls :
        (/\ lastOp.op \in {"updateCall", "message"}
         /\ lastOp.callId = c
         /\ isTerminal(calls[c].status))
        => /\ c \notin DOMAIN subscriptions
           /\ \A i \in 1..Len(sockets) :
                sockets[i].callId = c => sockets[i].readyState \in {"CLOSING", "CLOSED"}

\* C5: after the event loop consumed a StatusChange event with a terminal
\* new_status, the cached summary of the call has that status.
C5_TerminalStatusChangeRecorded ==
    (/\ ConsumedEvent
     /\ getEventType(lastOp.arg.message.data) = "status_change"
     /\ isTerminal(lastOp.arg.message.data.new_status))
    => /\ lastOp.callId \in DOMAIN calls
       /\ calls[lastOp.callId].status = lastOp.arg.message.data.new_status

\* C6: subscribeToCall on a call whose cached status is terminal changes
\* nothing, and no step opens a socket for a call whose cached status is
\* terminal.
C6_SubscribeTerminalNoOp ==
    [][\A c \in CallIds :
        (c \in DOMAIN calls /\ isTerminal(calls[c].status))
        => /\ (lastOp'.op = "subscribeToCall" /\ lastOp'.callId = c)
              => UNCHANGED <<calls, callsMeta, events, eventsMeta, subscriptions, sockets>>
           /\ \A i \in 1..Len(sockets') :
                sockets'[i].callId = c => i <= Len(sockets)]_vars

\* C6 witness: subscribeToCall returned early on a terminal, unsubscribed call.
C6_Witness ==
    /\ lastOp.op = "subscribeToCall"
    /\ lastOp.arg.early
    /\ lastOp.callId \in DOMAIN calls
    /\ calls[lastOp.callId].status = "cancelled"
    /\ lastOp.callId \notin DOMAIN subscriptions
    /\ sockets = <<>>

\* C7: subscribeToCall on a call already in the registry opens no socket and
\* leaves the registry alone; from an unsubscribed, non-terminal call it opens
\* exactly one socket and registers it.
C7_SubscribeIdempotent ==
    [][\A c \in CallIds :
        (lastOp'.op = "subscribeToCall" /\ lastOp'.callId = c)
        => /\ c \in DOMAIN subscriptions
              => /\ sockets' = sockets
                 /\ subscriptions' = subscriptions
           /\ (c \notin DOMAIN subscriptions
               /\ ~(c \in DOMAIN calls /\ isTerminal(calls[c].status)))
              => /\ Len(sockets') = Len(sockets) + 1
                 /\ c \in DOMAIN subscriptions'
                 /\ subscriptions'[c] = Len(sockets')
                 /\ DOMAIN subscriptions' = DOMAIN subscriptions \cup {c}]_vars

\* C7 witness: subscribeToCall returned early because the call, not terminal,
\* was already subscribed; one socket exists.
C7_Witness ==
    /\ lastOp.op = "subscribeToCall"
    /\ lastOp.arg.early
    /\ lastOp.callId \in DOMAIN subscriptions
    /\ ~(lastOp.callId \in DOMAIN calls /\ isTerminal(calls[lastOp.callId].status))
    /\ Len(sockets) = 1

\* C8: unless the step is clearCall, no event id leaves an event list.
C8_EventIdsGrow ==
    [][lastOp'.op # "clearCall"
       => \A c \in DOMAIN events :
            /\ c \in DOMAIN events'
            /\ Ids(events[c]) \subseteq Ids(events'[c])]_vars

\* C8 witness: setCallEvents was applied with a snapshot that lacks an event
\* the list holds.
C8_Witness ==
    /\ lastOp.op = "setCallEvents"
    /\ lastOp.arg.length > 0
    /\ lastOp.callId \in DOMAIN events
    /\ \E i \in 1..Len(events[lastOp.callId]) :
          events[lastOp.callId][i].id \notin lastOp.arg.ids

\* C9: addEvent is idempotent: in every store state, adding an event twice
\* gives the list that adding it once gives, and after addEvent(e) a second
\* addEvent(e) leaves the store as it is.
C9_AddEventIdempotent ==
    /\ \A e \in MergeEvents :
          addEvent(addEvent(events, e), e) = addEvent(events, e)
    /\ lastOp.op = "addEvent" => addEvent(events, lastOp.arg) = events

\* C9 witness: addEvent was applied and the list holds two events with the
\* same timestamp, the added one first.
C9_Witness ==
    /\ lastOp.op = "addEvent"
    /\ "c1" \in DOMAIN events
    /\ Len(events["c1"]) = 2
    /\ events["c1"][1] = lastOp.arg
    /\ events["c1"][1].timestamp = events["c1"][2].timestamp

\* C10 as stated: any two events of one call commute under addEvent.
C10_AddEventCommutes ==
    \A a, b \in MergeEvents :
        addEvent(addEvent(events, a), b) = addEvent(addEvent(events, b), a)

\* C10 amended: two events of one call with different ids and different
\* timestamps commute under addEvent.
C10_AddEventCommutesDistinct ==
    \A a, b \in MergeEvents :
        (a.id # b.id /\ a.timestamp # b.timestamp)
        => addEvent(addEvent(events, a), b) = addEvent(addEvent(events, b), a)

\* C10 witness: the event added last has the earlier timestamp and was
\* sorted in front of the event added before it.
C10_Witness ==
    /\ lastOp.op = "addEvent"
    /\ "c1" \in DOMAIN events
    /\ Len(events["c1"]) = 2
    /\ events["c1"][1] = lastOp.arg
    /\ events["c1"][1].timestamp < events["c1"][2].timestamp

\* The entry of a list that holds the given id.
EntryOf(list, id) == list[CHOOSE i \in 1..Len(list) : list[i].id = id]

\* The last element of a snapshot that carries the given id.
LastWrite(fetched, id) ==
    fetched[CHOOSE i \in 1..Len(fetched) :
                /\ fetched[i].id = id
                /\ \A j \in (i + 1)..Len(fetched) : fetched[j].id # id]

\* C11: writing an event whose id is already in the list, with any payload,
\* by addEvent or by setCallEvents, leaves the number of entries unchanged
\* and leaves under that id the payload of the most recent write (for a
\* snapshot that names the id several times, its last occurrence).
C11_LastWriteWins ==
    LET pre == EventsOf(events, "c1")
    IN  /\ \A event \in SequencedEvents :
            event.id \in Ids(pre)
            => LET post == addEvent(events, event)["c1"]
               IN  /\ Len(post) = Len(pre)
                   /\ EntryOf(post, event.id) = event
        /\ \A fetched \in SequencedSnapshots :
            Ids(fetched) \subseteq Ids(pre)
            => LET post == setCallEvents(events, "c1", fetched)["c1"]
               IN  /\ Len(post) = Len(pre)
                   /\ \A id \in Ids(fetched) : EntryOf(post, id) = LastWrite(fetched, id)

\* C11 witness: the list holds two entries, and an event with the id of one
\* of them but another payload and timestamp replaces that entry, through
\* addEvent and through setCallEvents alike, while the other entry stays.
C11_Witness ==
    /\ "c1" \in DOMAIN events
    /\ Len(events["c1"]) = 2
    /\ \E event \in SequencedEvents :
        /\ event.id \in Ids(events["c1"])
        /\ EntryOf(events["c1"], event.id).fields # event.fields
        /\ EntryOf(events["c1"], event.id).timestamp # event.timestamp
        /\ EntryOf(addEvent(events, event)["c1"], event.id) = event
        /\ EntryOf(setCallEvents(events, "c1", <<event>>)["c1"], event.id) = event
        /\ Len(addEvent(events, event)["c1"]) = 2
        /\ \E other \in Ids(events["c1"]) \ {event.id} :
              EntryOf(addEvent(events, event)["c1"], other) = EntryOf(events["c1"], other)

\* The timestamps of a list never decrease as the sequence number grows: what
\* a backend with a clock that does not run backwards produces.
TimestampsFollowSequence(list) ==
    \A i, j \in 1..Len(list) :
        list[i].sequence < list[j].sequence => list[i].timestamp <= list[j].timestamp

IsSortedBySequence(list) ==
    \A i, j \in 1..Len(list) : i < j => list[i].sequence <= list[j].sequence

\* C12: after any merge the sequence numbers of a list are non-decreasing
\* along the list, not only its timestamps.  Stated for the lists most
\* favourable to the claim, those whose timestamps follow the sequence order.
C12_SortedBySequence ==
    \A c \in DOMAIN events :
        TimestampsFollowSequence(events[c]) => IsSortedBySequence(events[c])

\* C13: clearCall(c) removes c from calls, callsMeta, events, eventsMeta and
\* subscriptions in one update and leaves every other entry as it was,
\* whether or not c had entries; a subscription registered for c is closed,
\* so its socket is closing or closed afterwards and no other socket changes.
C13_ClearCallRemovesAndCloses ==
    [][lastOp'.op = "clearCall"
       => LET c == lastOp'.callId
          IN  /\ calls' = Without(calls, c)
              /\ callsMeta' = Without(callsMeta, c)
              /\ events' = Without(events, c)
              /\ eventsMeta' = Without(eventsMeta, c)
              /\ subscriptions' = Without(subscriptions, c)
              /\ Len(sockets') = Len(sockets)
              /\ \A i \in 1..Len(sockets) :
                    IF c \in DOMAIN subscriptions /\ subscriptions[c] = i
                    THEN sockets'[i].readyState \in {"CLOSING", "CLOSED"}
                    ELSE sockets'[i] = sockets[i]]_vars

\* C14: when a socket closes while the cached status of its call is running,
\* the close task ends both consumption loops of that socket and writes
\* nothing to the store: the cached status stays running.
C14_CloseEndsLoopKeepsStatus ==
    [][lastOp'.op = "close"
       => /\ sockets'[lastOp'.arg.sock].evLoop = "done"
          /\ sockets'[lastOp'.arg.sock].errLoop = "done"
          /\ sockets'[lastOp'.arg.sock].eventResolvers = <<>>
          /\ UNCHANGED <<calls, callsMeta, events, eventsMeta, subscriptions>>]_vars

\* C14 witness: a socket that nobody asked to close has closed, its event
\* loop has ended, and the cached status of its call is still running.
C14_Witness ==
    /\ lastOp.op = "close"
    /\ ~sockets[lastOp.arg.sock].closeCalled
    /\ sockets[lastOp.arg.sock].evLoop = "done"
    /\ "c1" \in DOMAIN calls
    /\ calls["c1"].status = "running"
    /\ "c1" \in DOMAIN subscriptions
    /\ subscriptions["c1"] = lastOp.arg.sock

\* The buffer of a sequence of the bare adapter.
QueueOf(sock, channel) == IF channel = "events" THEN sock.eventQueue ELSE sock.errorQueue

\* C15: when the socket of an adapter closes, every next() call still waiting
\* on either sequence reports end-of-sequence; every next() call made after
\* the closure returns the oldest message still buffered, and end-of-sequence
\* once the buffer is empty.
C15_CloseEndsBothSequences ==
    [][/\ sockets'[1].closed
          => \A channel \in Channels : \A c \in 1..Len(polls'[channel]) :
                polls'[channel][c].result # "pending"
       /\ (lastOp'.op = "close")
          => \A channel \in Channels : \A c \in 1..Len(polls[channel]) :
                polls'[channel][c] =
                    IF polls[channel][c].result = "pending"
                    THEN [polls[channel][c] EXCEPT !.result = "done"]
                    ELSE polls[channel][c]
       /\ (lastOp'.op = "next" /\ sockets[1].closed)
          => LET channel == lastOp'.arg.channel
                 buffered == QueueOf(sockets[1], channel)
                 answer == polls'[channel][Len(polls'[channel])]
             IN  IF buffered # <<>>
                 THEN /\ answer.result = "value"
                      /\ answer.value = <<Head(buffered)>>
                      /\ QueueOf(sockets'[1], channel) = Tail(buffered)
                 ELSE answer.result = "done"]_vars

\* C15 witness: the adapter has closed; a next() call on the events sequence
\* that was waiting at the closure has reported end-of-sequence, and on the
\* errors sequence a call made after the closure returned the message that
\* was buffered before it and the following call reported end-of-sequence.
C15_Witness ==
    /\ sockets[1].closed
    /\ Len(polls.events) >= 1
    /\ polls.events[1] = [result |-> "done", value |-> <<>>, closed |-> FALSE,
                          behind |-> 0, waited |-> TRUE]
    /\ Len(polls.errors) >= 2
    /\ polls.errors[1] = [result |-> "value", value |-> <<1>>, closed |-> TRUE,
                          behind |-> 0, waited |-> FALSE]
    /\ polls.errors[2] = [result |-> "done", value |-> <<>>, closed |-> TRUE,
                          behind |-> 0, waited |-> FALSE]

\* The place of an item in the order of arrival on its sequence.
Arrival(channel, item) == CHOOSE i \in 1..Len(wire[channel]) : wire[channel][i] = item

\* C16: on each sequence, of two next() calls that have both returned an
\* item the earlier call holds the item that arrived earlier, whatever the
\* interleaving of arrivals and calls.
C16_DeliveryInArrivalOrder ==
    \A channel \in Channels : \A c1, c2 \in 1..Len(polls[channel]) :
        (/\ c1 < c2
         /\ polls[channel][c1].result = "value"
         /\ polls[channel][c2].result = "value")
        => Arrival(channel, polls[channel][c1].value[1])
               < Arrival(channel, polls[channel][c2].value[1])

\* C16 witness: two next() calls were waiting on the events sequence when
\* the first event arrived; it went to the first call, the second event to
\* the second call, and a third event, buffered, to a call made afterwards.
C16_Witness ==
    /\ lastOp.op = "next"
    /\ wire.events = <<1, 2, 3>>
    /\ Len(polls.events) = 3
    /\ \A c \in 1..3 : polls.events[c].result = "value" /\ polls.events[c].value = <<c>>
    /\ polls.events[1].waited /\ polls.events[2].waited /\ ~polls.events[3].waited
    /\ polls.events[2].behind = 1

\* The number of items the errors sequence has received so far: buffered, or
\* handed to a next() call.
ErrorsSurfaced(sock, ps) ==
    Len(sock.errorQueue)
    + Cardinality({c \in 1..Len(ps.errors) : ps.errors[c].result = "value"})

\* C17: a socket-level error event or a malformed inbound message puts an
\* item on the errors sequence, and leaves the adapter open and the events
\* sequence running.
C17_TransportErrorSurfaced ==
    [][(\/ lastOp'.op = "error"
        \/ lastOp'.op = "message" /\ lastOp'.arg.type = "malformed")
       => /\ ErrorsSurfaced(sockets'[1], polls') = ErrorsSurfaced(sockets[1], polls) + 1
          /\ sockets'[1].closed = sockets[1].closed
          /\ sockets'[1].readyState = sockets[1].readyState
          /\ polls'.events = polls.events]_vars

\* An item that has arrived on a sequence and that its loop has not taken yet.
Arrived(channel, item) ==
    \/ \E k \in 1..Len(polls[channel]) : polls[channel][k] = item
    \/ \E k \in 1..Len(QueueOf(sockets[1], channel)) : QueueOf(sockets[1], channel)[k] = item

\* C18: whatever the other sequence receives, an event that has arrived is
\* eventually applied by the event loop, and an error that has arrived is
\* eventually logged by the error loop.
C18_LoopsDoNotStarve ==
    /\ \A event \in StreamEvents("c1") :
          Arrived("events", event) ~> (lastOp = Op("eventLoop", "c1", event))
    /\ \A error \in WSError :
          Arrived("errors", error) ~> (lastOp = Op("errorLoop", "c1", error))

\* C18 witness: the event loop has just applied an event while a burst of
\* errors is still waiting for the error loop.
C18_Witness ==
    /\ lastOp.op = "eventLoop"
    /\ EntryOf(events["c1"], lastOp.arg.id) = lastOp.arg
    /\ sockets[1].errLoop = "resumed"
    /\ Len(sockets[1].errorQueue) + Len(polls.errors) >= MaxBacklog

\* The metadata reports a problem or a load in progress.
ReportsTrouble(meta) ==
    \/ meta.loading
    \/ meta.error # "null"
    \/ meta.notFound

\* C19: when a request for the summary of a call has succeeded, the failure
\* of another request for it that was issued earlier does not leave the
\* metadata of the cached summary reporting an error, notFound or loading.
C19_StaleFailureDoesNotClobber ==
    (/\ lastOp.op = "getCallFailed"
     /\ \E g \in fetches : /\ g.kind = "call"
                           /\ g.callId = lastOp.callId
                           /\ g.state = "ok"
                           /\ g.n > lastOp.arg.n)
    => ~ReportsTrouble(callsMeta[lastOp.callId])

\* C20: a failed request for a summary or for an event history sets error in
\* the metadata of that resource, and sets notFound exactly when the response
\* was HTTP 404.
C20_NotFoundIffStatus404 ==
    /\ lastOp.op = "getCallFailed"
       => /\ callsMeta[lastOp.callId].error # "null"
          /\ callsMeta[lastOp.callId].notFound <=> (lastOp.arg.failure.status = NotFoundStatus)
    /\ lastOp.op = "getCallEventsFailed"
       => /\ eventsMeta[lastOp.callId].error # "null"
          /\ eventsMeta[lastOp.callId].notFound <=> (lastOp.arg.failure.status = NotFoundStatus)


\* C21: every REST fetch failure, of an agent, a call or an event history, is
\* recovered into the store's metadata and none escapes as an unhandled
\* rejection: after a failed fetch the resource's metadata records the error
\* with loading cleared, and a failed agent fetch started by a route loader
\* leaves agentsMeta recording the error.
C21_FetchFailuresRecovered ==
    /\ \A f \in fetches : f.state # "unhandled"
    /\ lastOp.op = "agentRouteFailed"
       => /\ lastOp.callId \in DOMAIN agentsMeta
          /\ agentsMeta[lastOp.callId].error # "null"
          /\ ~agentsMeta[lastOp.callId].loading
    /\ lastOp.op = "getCallFailed"
       => /\ callsMeta[lastOp.callId].error # "null"
          /\ ~callsMeta[lastOp.callId].loading
    /\ lastOp.op = "getCallEventsFailed"
       => /\ eventsMeta[lastOp.callId].error # "null"
          /\ ~eventsMeta[lastOp.callId].loading

CacheOf(c) ==
    [call |-> IF c \in DOMAIN calls THEN <<calls[c]>> ELSE <<>>,
     callMeta |-> IF c \in DOMAIN callsMeta THEN <<callsMeta[c]>> ELSE <<>>,
     events |-> IF c \in DOMAIN events THEN <<events[c]>> ELSE <<>>,
     eventsMeta |-> IF c \in DOMAIN eventsMeta THEN <<eventsMeta[c]>> ELSE <<>>,
     subscription |-> IF c \in DOMAIN subscriptions
                      THEN <<subscriptions[c], sockets[subscriptions[c]]>> ELSE <<>>]

\* The task just done was addressed to call "c1": a store action called with
\* that id, or a task of a socket opened for it.
AddressedToC1 == lastOp'.callId = "c1"

\* The task just done was a message of a "c1" socket whose event names "c2"
\* and was handed to the event loop.
ForeignEventConsumed ==
    /\ lastOp'.op = "message"
    /\ lastOp'.arg.consumed
    /\ lastOp'.arg.message.data.call_id = "c2"

\* C22 (as stated): every store action addressed to a call, and every
\* addEvent and updateCall issued by that call's subscription loops, leaves
\* the entries of every other call unchanged.
C22_OtherCallsUnchanged ==
    [][AddressedToC1 => CacheOf("c2")' = CacheOf("c2")]_vars

\* C22 (amended): the same, except that an event arriving on the call's
\* stream under another call's id is added to that other call's event list
\* (addEvent files by event.call_id) and changes nothing else of it.
C22_OtherCallsUnchangedByOwnEvents ==
    [][AddressedToC1
       => IF ForeignEventConsumed
          THEN CacheOf("c2")' =
                   [CacheOf("c2") EXCEPT
                       !.events = <<addEvent(events, lastOp'.arg.message.data)["c2"]>>]
          ELSE CacheOf("c2")' = CacheOf("c2")]_vars

\* The loop of a "c1" subscription has consumed a terminal status change of
\* "c1" next to the untouched cache of "c2".
C22_Witness ==
    /\ lastOp.op = "message"
    /\ lastOp.arg.consumed
    /\ lastOp.arg.message.data.call_id = "c1"
    /\ "c1" \in DOMAIN calls /\ calls["c1"].status = "completed"
    /\ "c1" \in DOMAIN events /\ events["c1"] # <<>>
    /\ "c1" \in DOMAIN callsMeta /\ "c1" \in DOMAIN eventsMeta
    /\ calls["c2"].status = "running"
    /\ Len(events["c2"]) = 1 /\ events["c2"][1].call_id = "c2"
    /\ subscriptions["c2"] = 1


\* Every list of the store holds events of its own call only.
OwnEventsOnly(evs) ==
    \A c \in DOMAIN evs : \A i \in 1..Len(evs[c]) : evs[c][i].call_id = c

\* C28 (as stated): every event stored in events[C] has call_id C, after any
\* sequence of addEvent, setCallEvents(C, E) and events consumed from C's
\* subscription, whatever the backend sends.
C28_EventsFiledUnderOwnCall == OwnEventsOnly(events)

\* C28 (amended): addEvent and the events consumed from a subscription keep
\* every list to events of its own call whatever the backend sends, and
\* setCallEvents(C, E) keeps it whenever every event of E has call_id C.
C28_EventsFiledUnderOwnCallUnlessSnapshot ==
    [][OwnEventsOnly(events)
       => IF lastOp'.op = "setCallEvents"
          THEN \A fetched \in AnySnapshots :
                   (/\ \A i \in 1..Len(fetched) : fetched[i].call_id = lastOp'.callId
                    /\ events' = setCallEvents(events, lastOp'.callId, fetched))
                   => OwnEventsOnly(events')
          ELSE OwnEventsOnly(events')]_vars

\* An event naming "c2" has arrived on a "c1" stream and sits in the list of
\* "c2"; a snapshot of "c1" has been merged; every list holds its own events.
C28_Witness ==
    /\ lastOp.op = "message"
    /\ lastOp.arg.consumed
    /\ lastOp.arg.message.data.call_id = "c2"
    /\ events["c2"] = <<lastOp.arg.message.data>>
    /\ lastOp.arg.message.data.new_status = "completed"
    /\ "c1" \in DOMAIN events /\ events["c1"] # <<>>
    /\ OwnEventsOnly(events)


\* C26: every call id in the subscriptions registry has a socket that is not
\* closed (a socket that closes on its own takes its registry entry with
\* it), so that no subscribeToCall returns early because of a dead handle.
C26_RegistryHoldsOpenSockets ==
    /\ \A c \in DOMAIN subscriptions : sockets[subscriptions[c]].readyState # "CLOSED"
    /\ (lastOp.op = "subscribeToCall" /\ lastOp.arg.early /\ lastOp.callId \in DOMAIN subscriptions)
       => sockets[subscriptions[lastOp.callId]].readyState # "CLOSED"



\* C24: leaving the execution view of a call unsubscribes it: the call's
\* handle, if it has one, is removed from the registry and its socket is
\* closed or closing; nothing changes without a handle; and the cached
\* summary, event list and both metadata records stay as they were.
C24_LeaveViewUnsubscribesOnly ==
    [][lastOp'.op = "leaveView"
       => LET c == lastOp'.callId
          IN  /\ c \notin DOMAIN subscriptions'
              /\ c \in DOMAIN subscriptions => ~Live(sockets'[subscriptions[c]])
              /\ c \notin DOMAIN subscriptions => UNCHANGED <<subscriptions, sockets>>
              /\ UNCHANGED <<calls, callsMeta, events, eventsMeta>>]_vars

\* C25: a summary request that was in flight when a terminal StatusChange
\* was applied to the cached call does not put a non-terminal status back
\* when it completes.
C25_TerminalStatusIsFinal ==
    [][(/\ lastOp.op = "message"
        /\ lastOp.arg.consumed
        /\ "c1" \in DOMAIN calls
        /\ isTerminal(calls["c1"].status)
        /\ lastOp'.op = "getCallOk")
       => isTerminal(calls'["c1"].status)]_vars


\* The items the next() calls on a sequence have returned, in call order.
Returned(channel) ==
    LET valued == SelectSeq(polls[channel], LAMBDA p : p.result = "value")
    IN  [k \in 1..Len(valued) |-> valued[k].value[1]]

ResolversOf(sock, channel) ==
    IF channel = "events" THEN sock.eventResolvers ELSE sock.errorResolvers

\* C27: on each sequence of an adapter, the messages that have arrived are
\* exactly the items returned by next() calls followed by the items still
\* buffered, each once and in arrival order, so that a consumer that keeps
\* calling next() gets every message exactly once; and the buffer and the
\* list of waiting resolvers are never both non-empty.
C27_ExactlyOnceDelivery ==
    \A channel \in Channels :
        /\ Returned(channel) \o QueueOf(sockets[1], channel) = wire[channel]
        /\ ~(/\ QueueOf(sockets[1], channel) # <<>>
             /\ ResolversOf(sockets[1], channel) # <<>>)

\* C27 witness: the first event went to a next() call that was waiting, the
\* second was buffered and returned by the following call; one error has
\* been returned from the buffer and another is still buffered.
C27_Witness ==
    /\ wire.events = <<1, 2>>
    /\ Len(polls.events) = 2
    /\ polls.events[1].result = "value" /\ polls.events[1].waited
    /\ polls.events[2].result = "value" /\ ~polls.events[2].waited
    /\ sockets[1].eventQueue = <<>>
    /\ wire.errors = <<1, 2>>
    /\ Returned("errors") = <<1>>
    /\ sockets[1].errorQueue = <<2>>



\* The WebSocket event with the given number is in the list.
HoldsWsEvent(list, n) == \E i \in 1..Len(list) : list[i] = ViewerEvent("ws", n)

\* C29: once an execution has completed or failed, every event that its
\* socket delivered while it was running is in its event list, both in
\* currentExecution and in its copy in previousExecutions.
C29_StreamedEventsKept ==
    (viewer.execution.status \in {"completed", "error"})
    => \A k \in 1..Len(viewer.received) :
          /\ viewer.currentExecution.id = viewer.execution.id
             => HoldsWsEvent(viewer.currentExecution.events, viewer.received[k])
          /\ \A i \in 1..Len(viewer.previousExecutions) :
                viewer.previousExecutions[i].id = viewer.execution.id
                => HoldsWsEvent(viewer.previousExecutions[i].events, viewer.received[k])

\* The current execution's event list is not what it was before the step.
EventListChanges == viewer'.currentExecution.events # viewer.currentExecution.events

\* C30: when the current execution's event list changes, the view ends at
\* the bottom exactly if the user-scrolling flag was clear or the view, with
\* the new content, is within 50 pixels of the bottom; a scroll event sets
\* the flag when it goes up and clears it when it reaches the bottom; and a
\* view whose user has scrolled up and stayed there is not pulled down.
C30_AutoScrollUnlessUserScrolling ==
    [][/\ (EventListChanges /\ HasContainer(viewer) /\ HasContainer(viewer'))
          => LET laid == Layout(viewer, [viewer' EXCEPT !.scrollTop = viewer.scrollTop])
             IN  (viewer'.scrollTop = MaxScrollTop(viewer'))
                 <=> (~viewer.isUserScrolling \/ isAtBottom(laid))
       /\ (lastOp'.op = "userScroll")
          => viewer'.isUserScrolling =
                 IF isAtBottom(viewer') THEN FALSE
                 ELSE IF viewer'.scrollTop < viewer.lastScrollTop THEN TRUE
                 ELSE viewer.isUserScrolling
       /\ (EventListChanges /\ viewer.isUserScrolling /\ ~isAtBottom(viewer))
          => viewer'.scrollTop <= viewer.scrollTop]_vars


=============================================================================
